---- MODULE Spec2Model ----
(***************************************************************************)
(* SimpleVector<Type> of src/simple-vector/simple_vector.h as a state      *)
(* machine over two vector objects "a" and "b".                            *)
(*                                                                         *)
(* A vector is the record [size, cap, buf, items]: size_ and capacity_ are *)
(* the two counters of the class, buf is the identity of the array owned   *)
(* by items_ (0 is the null pointer) and items is the content of that      *)
(* array, one entry per slot that was really allocated.  Len(items) is the *)
(* allocated slot count, which the class itself never stores: it only      *)
(* stores capacity_.  Slot i of the code is items[i + 1] here.             *)
(*                                                                         *)
(* Type is an integer-like element type: Type{} is 0 and a moved-from      *)
(* element keeps its value.                                                *)
(***************************************************************************)
EXTENDS Integers, Sequences, FiniteSets, TLC

VARIABLES vec, live, call, pushed

vars == <<vec, live, call, pushed>>

\* Largest capacity (and so largest size) the model lets a vector reach.
MaxCap == 4

\* Longest run of PushBack calls followed from a default-constructed vector.
MaxPushes == 6

Names == {"a", "b"}

\* Element values; DefaultValue is Type{}.
Values == {0, 1}

DefaultValue == 0

Slots == 0 .. (MaxCap - 1)

\* A slot of a fresh array that nothing was written to yet.
Uninit == 0 - 1

\* What reads of unwritten slots and of memory beyond the end of an array can
\* yield, slot by slot.
Memory == [Slots -> Values]

ZeroMemory == [i \in Slots |-> DefaultValue]

NullBuf == 0

BufIds == 1 .. (Cardinality(Names) + 1)

NoIndex == 0 - 1

NoCursor == [buf |-> NullBuf, idx |-> NoIndex]

\* size_ = 0, capacity_ = 0 and an empty ArrayPtr: the default member
\* initialisers, which is also what every constructor starts from.
EmptyVector == [size |-> 0, cap |-> 0, buf |-> NullBuf, items |-> << >>]

(***************************************************************************)
(* Raw array accesses.  An access to a slot outside the allocation and a   *)
(* read of a slot never written are undefined behaviour: such a read       *)
(* yields any value (junk[i]), a write outside lands outside the array and *)
(* is not part of it.                                                      *)
(***************************************************************************)
Rd(items, i, junk) ==
    IF i < Len(items) /\ items[i + 1] # Uninit THEN items[i + 1] ELSE junk[i]

Wr(items, i, x) == IF i < Len(items) THEN [items EXCEPT ![i + 1] = x] ELSE items

\* ArrayPtr<Type>(n): n raw slots (none, and the null pointer, for n = 0).
ArrayPtrItems(n) == [i \in 1 .. n |-> Uninit]

ArrayPtrBuf(n, id) == IF n = 0 THEN NullBuf ELSE id

\* Arrays really allocated by ArrayPtr<Type>(n).
ArrayPtrAllocs(n) == IF n = 0 THEN 0 ELSE 1

\* Does copying first..last-1 of an array of srcLen slots to d.. of an array
\* of dstLen slots touch a slot outside either array?
RangeOob(srcLen, first, lst, dstLen, d) ==
    first < lst /\ (lst > srcLen \/ d + (lst - first) > dstLen)

\* std::copy / std::move(first, last, d_first) between two arrays: slot by
\* slot, lowest first.
RECURSIVE CopyRange(_, _, _, _, _, _)
CopyRange(src, first, lst, dst, d, junk) ==
    IF first >= lst THEN dst
    ELSE CopyRange(src, first + 1, lst, Wr(dst, d, Rd(src, first, junk)), d + 1, junk)

\* std::move(first, last, d_first) inside one array: slot by slot, lowest first.
RECURSIVE MoveForward(_, _, _, _, _)
MoveForward(items, first, lst, d, junk) ==
    IF first >= lst THEN items
    ELSE MoveForward(Wr(items, d, Rd(items, first, junk)), first + 1, lst, d + 1, junk)

\* std::copy_backward / std::move_backward(first, last, d_last) inside one
\* array: slot by slot, highest first.
RECURSIVE CopyBackward(_, _, _, _, _)
CopyBackward(items, first, lst, dlast, junk) ==
    IF first >= lst THEN items
    ELSE CopyBackward(Wr(items, dlast - 1, Rd(items, lst - 1, junk)),
                      first, lst - 1, dlast - 1, junk)

\* std::fill(first, last, x) and the loops "*it = Type{}" of Resize.
RECURSIVE FillRange(_, _, _, _)
FillRange(items, first, lst, x) ==
    IF first >= lst THEN items
    ELSE FillRange(Wr(items, first, x), first + 1, lst, x)

\* What an operation hands back: the vector afterwards, the cursor it
\* returns, whether it touched a slot outside an array, and how many arrays
\* it allocated.
Outcome(v, ret, oob, allocs) == [v |-> v, ret |-> ret, oob |-> oob, allocs |-> allocs]

Cursor(v, idx) == [buf |-> v.buf, idx |-> idx]

(***************************************************************************)
(* Constructors.  id is the identity the allocator gives a new array, junk *)
(* what reads of unwritten slots and of memory outside the arrays yield.   *)
(***************************************************************************)

\* SimpleVector(size_t size): size slots, filled with Type{}.
CountCtor(n, id) ==
    Outcome([size |-> n, cap |-> n, buf |-> ArrayPtrBuf(n, id),
             items |-> FillRange(ArrayPtrItems(n), 0, n, DefaultValue)],
            NoCursor, FALSE, ArrayPtrAllocs(n))

\* SimpleVector(size_t size, const Type& value): size slots, filled with value.
FillCtor(n, x, id) ==
    Outcome([size |-> n, cap |-> n, buf |-> ArrayPtrBuf(n, id),
             items |-> FillRange(ArrayPtrItems(n), 0, n, x)],
            NoCursor, FALSE, ArrayPtrAllocs(n))

\* SimpleVector(std::initializer_list<Type> init): init copied slot by slot.
ListCtor(init, id) ==
    Outcome([size |-> Len(init), cap |-> Len(init), buf |-> ArrayPtrBuf(Len(init), id),
             items |-> CopyRange(init, 0, Len(init), ArrayPtrItems(Len(init)), 0,
                                 ZeroMemory)],
            NoCursor, FALSE, ArrayPtrAllocs(Len(init)))

\* The copy constructor sets capacity_ to the default member initialiser.
CopyCtorCapacity(other) == 0

\* SimpleVector(const SimpleVector& other): items_(other.capacity_),
\* size_(other.size_), then other's size_ elements copied into items_.
CopyCtor(other, id, junk) ==
    Outcome([size |-> other.size, cap |-> CopyCtorCapacity(other),
             buf |-> ArrayPtrBuf(other.cap, id),
             items |-> CopyRange(other.items, 0, other.size,
                                 ArrayPtrItems(other.cap), 0, junk)],
            NoCursor,
            RangeOob(Len(other.items), 0, other.size, other.cap, 0),
            ArrayPtrAllocs(other.cap))

\* A swap that hands other's members to this and leaves them in other too.
SwapPairAliases(this, other) == <<other, other>>

\* swap(SimpleVector& other) and swap(SimpleVector&& other): items_, size_
\* and capacity_ change places.  The pair <<this, other>> afterwards.
SwapPair(this, other) == <<other, this>>

\* A move constructor that takes the members of other and leaves them in other.
MoveCtorKeepsSource(other) == <<other, other>>

\* SimpleVector(SimpleVector&& other): swap(other) from the default members.
MoveCtor(other) == SwapPair(EmptyVector, other)

(***************************************************************************)
(* Operations on one vector.                                               *)
(***************************************************************************)

\* A Clear that also gives the array back.
ClearReleases(v) == Outcome(EmptyVector, NoCursor, FALSE, 0)

\* Clear(): size_ = 0.
Clear(v) == Outcome([v EXCEPT !.size = 0], NoCursor, FALSE, 0)

\* PopBack(): --size_ when size_ > 0.
PopBack(v) ==
    Outcome(IF v.size > 0 THEN [v EXCEPT !.size = v.size - 1] ELSE v, NoCursor, FALSE, 0)

\* Erase(pos), pos = begin() + index: the elements after index move one slot
\* down, --size_, and &items_[index] is returned.
Erase(v, index, junk) ==
    LET moved == MoveForward(v.items, index + 1, v.size, index, junk)
        after == [v EXCEPT !.items = moved, !.size = v.size - 1]
    IN  Outcome(after, Cursor(after, index),
                RangeOob(Len(v.items), index + 1, v.size, Len(v.items), index), 0)

\* PushBack with a growth step that forgets to copy the old elements over.
PushBackForgetsCopy(v, item, id, junk) ==
    IF v.size < v.cap
    THEN Outcome([v EXCEPT !.items = Wr(v.items, v.size, item), !.size = v.size + 1],
                 NoCursor, v.size >= Len(v.items), 0)
    ELSE LET new_capacity == IF v.cap = 0 THEN 1 ELSE v.cap * 2
         IN  Outcome([size |-> v.size + 1, cap |-> new_capacity,
                      buf |-> ArrayPtrBuf(new_capacity, id),
                      items |-> Wr(ArrayPtrItems(new_capacity), v.size, item)],
                     NoCursor, v.size >= new_capacity, 1)

\* PushBack(const Type& item).
PushBack(v, item, id, junk) ==
    IF v.size < v.cap
    THEN Outcome([v EXCEPT !.items = Wr(v.items, v.size, item), !.size = v.size + 1],
                 NoCursor, v.size >= Len(v.items), 0)
    ELSE IF v.cap = 0
    THEN LET temp == ArrayPtrItems(1)
         IN  Outcome([size |-> v.size + 1, cap |-> v.cap + 1, buf |-> ArrayPtrBuf(1, id),
                      items |-> Wr(temp, v.size, item)],
                     NoCursor, v.size >= 1, 1)
    ELSE LET new_capacity == v.cap * 2
             temp == CopyRange(v.items, 0, v.size, ArrayPtrItems(new_capacity), 0, junk)
         IN  Outcome([size |-> v.size + 1, cap |-> new_capacity,
                      buf |-> ArrayPtrBuf(new_capacity, id),
                      items |-> Wr(temp, v.size, item)],
                     NoCursor,
                     RangeOob(Len(v.items), 0, v.size, new_capacity, 0)
                         \/ v.size >= new_capacity,
                     1)

\* PushBack(Type&& item): the same steps with std::move for std::copy.
PushBackMove(v, item, id, junk) ==
    IF v.size < v.cap
    THEN Outcome([v EXCEPT !.items = Wr(v.items, v.size, item), !.size = v.size + 1],
                 NoCursor, v.size >= Len(v.items), 0)
    ELSE IF v.cap = 0
    THEN LET temp == ArrayPtrItems(1)
         IN  Outcome([size |-> v.size + 1, cap |-> v.cap + 1, buf |-> ArrayPtrBuf(1, id),
                      items |-> Wr(temp, v.size, item)],
                     NoCursor, v.size >= 1, 1)
    ELSE LET new_capacity == v.cap * 2
             temp == CopyRange(v.items, 0, v.size, ArrayPtrItems(new_capacity), 0, junk)
         IN  Outcome([size |-> v.size + 1, cap |-> new_capacity,
                      buf |-> ArrayPtrBuf(new_capacity, id),
                      items |-> Wr(temp, v.size, item)],
                     NoCursor,
                     RangeOob(Len(v.items), 0, v.size, new_capacity, 0)
                         \/ v.size >= new_capacity,
                     1)

\* Insert(ConstIterator pos, const Type& value), pos = begin() + index.
Insert(v, index, value, id, junk) ==
    IF v.cap = 0
    THEN LET temp == ArrayPtrItems(1)
             after == [size |-> v.size + 1, cap |-> v.cap + 1, buf |-> ArrayPtrBuf(1, id),
                       items |-> Wr(temp, 0, value)]
         IN  Outcome(after, Cursor(after, index), FALSE, 1)
    ELSE IF v.size < v.cap
    THEN LET shifted == CopyBackward(v.items, index, v.size, v.size + 1, junk)
             after == [v EXCEPT !.items = Wr(shifted, index, value), !.size = v.size + 1]
         IN  Outcome(after, Cursor(after, index),
                     v.size >= Len(v.items), 0)
    ELSE LET temp0 == ArrayPtrItems(v.cap * 2)
             temp1 == CopyRange(v.items, 0, index, temp0, 0, junk)
             temp2 == CopyRange(v.items, index, v.size, temp1, index + 1, junk)
             after == [size |-> v.size + 1, cap |-> v.cap * 2,
                       buf |-> ArrayPtrBuf(v.cap * 2, id),
                       items |-> Wr(temp2, index, value)]
         IN  Outcome(after, Cursor(after, index),
                     RangeOob(Len(v.items), 0, v.size, v.cap * 2, 0)
                         \/ v.size >= v.cap * 2,
                     1)

\* Insert(Iterator pos, Type&& value): the same steps with std::move and
\* std::move_backward.
InsertMove(v, index, value, id, junk) ==
    IF v.cap = 0
    THEN LET temp == ArrayPtrItems(1)
             after == [size |-> v.size + 1, cap |-> v.cap + 1, buf |-> ArrayPtrBuf(1, id),
                       items |-> Wr(temp, 0, value)]
         IN  Outcome(after, Cursor(after, index), FALSE, 1)
    ELSE IF v.size < v.cap
    THEN LET shifted == CopyBackward(v.items, index, v.size, v.size + 1, junk)
             after == [v EXCEPT !.items = Wr(shifted, index, value), !.size = v.size + 1]
         IN  Outcome(after, Cursor(after, index),
                     v.size >= Len(v.items), 0)
    ELSE LET temp0 == ArrayPtrItems(v.cap * 2)
             temp1 == CopyRange(v.items, 0, index, temp0, 0, junk)
             temp2 == CopyRange(v.items, index, v.size, temp1, index + 1, junk)
             after == [size |-> v.size + 1, cap |-> v.cap * 2,
                       buf |-> ArrayPtrBuf(v.cap * 2, id),
                       items |-> Wr(temp2, index, value)]
         IN  Outcome(after, Cursor(after, index),
                     RangeOob(Len(v.items), 0, v.size, v.cap * 2, 0)
                         \/ v.size >= v.cap * 2,
                     1)

\* Reserve(size_t new_capacity).
Reserve(v, new_capacity, id, junk) ==
    IF new_capacity > v.cap
    THEN Outcome([size |-> v.size, cap |-> new_capacity,
                  buf |-> ArrayPtrBuf(new_capacity, id),
                  items |-> CopyRange(v.items, 0, v.size,
                                      ArrayPtrItems(new_capacity), 0, junk)],
                 NoCursor, RangeOob(Len(v.items), 0, v.size, new_capacity, 0), 1)
    ELSE Outcome(v, NoCursor, FALSE, 0)

\* A reserving constructor that leaves the default members as they are.
ReserveCtorAllocatesNothing(n, id) == Outcome(EmptyVector, NoCursor, FALSE, 0)

\* SimpleVector(ReserveProxyObj obj): Reserve(obj.GetCapacity()) from the
\* default members.
ReserveCtor(n, id) == Reserve(EmptyVector, n, id, ZeroMemory)

\* The slot count Resize allocates when new_size > capacity_.
ResizeCapacity(new_size, c) == IF new_size > c * 2 THEN new_size ELSE c * 2

\* A Resize that keeps one element too many when it shrinks.
ResizeShrinksShort(v, new_size, id, junk) ==
    IF new_size < v.size
    THEN Outcome([v EXCEPT !.size = new_size + 1], NoCursor, FALSE, 0)
    ELSE IF new_size <= v.cap
    THEN Outcome([v EXCEPT !.items = FillRange(v.items, v.size, new_size, DefaultValue),
                           !.size = new_size],
                 NoCursor, new_size > Len(v.items), 0)
    ELSE LET n == ResizeCapacity(new_size, v.cap)
             temp == CopyRange(v.items, 0, v.size, ArrayPtrItems(n), 0, junk)
         IN  Outcome([size |-> new_size, cap |-> n, buf |-> ArrayPtrBuf(n, id),
                      items |-> FillRange(temp, v.size, new_size, DefaultValue)],
                     NoCursor, RangeOob(Len(v.items), 0, v.size, n, 0), 1)

\* A Resize that grows in place without writing the slots it exposes.
ResizeExposesSlots(v, new_size, id, junk) ==
    IF new_size <= v.cap
    THEN Outcome([v EXCEPT !.size = new_size], NoCursor, new_size > Len(v.items), 0)
    ELSE LET n == ResizeCapacity(new_size, v.cap)
             temp == CopyRange(v.items, 0, v.size, ArrayPtrItems(n), 0, junk)
         IN  Outcome([size |-> new_size, cap |-> n, buf |-> ArrayPtrBuf(n, id),
                      items |-> FillRange(temp, v.size, new_size, DefaultValue)],
                     NoCursor, RangeOob(Len(v.items), 0, v.size, n, 0), 1)

\* Resize(size_t new_size).
Resize(v, new_size, id, junk) ==
    IF new_size <= v.size
    THEN Outcome([v EXCEPT !.size = new_size], NoCursor, FALSE, 0)
    ELSE IF new_size <= v.cap
    THEN Outcome([v EXCEPT !.items = FillRange(v.items, v.size, new_size, DefaultValue),
                           !.size = new_size],
                 NoCursor, new_size > Len(v.items), 0)
    ELSE LET n == ResizeCapacity(new_size, v.cap)
             temp == CopyRange(v.items, 0, v.size, ArrayPtrItems(n), 0, junk)
         IN  Outcome([size |-> new_size, cap |-> n, buf |-> ArrayPtrBuf(n, id),
                      items |-> FillRange(temp, v.size, new_size, DefaultValue)],
                     NoCursor, RangeOob(Len(v.items), 0, v.size, n, 0), 1)

\* operator=(const SimpleVector& rhs) when this and rhs are two objects:
\* swap(SimpleVector<Type>(rhs)).  An rvalue right-hand side binds to the
\* same operator, the class declares no other.
CopyAssign(this, rhs, id, junk) ==
    LET temp == CopyCtor(rhs, id, junk)
    IN  Outcome(SwapPair(this, temp.v)[1], NoCursor, temp.oob, temp.allocs)

(***************************************************************************)
(* Reads.                                                                  *)
(***************************************************************************)
GetSize(v) == v.size

GetCapacity(v) == v.cap

IsEmpty(v) == v.size = 0

\* The std::out_of_range exception, in place of a returned element.
OutOfRange == 0 - 2

\* At with the bound check off by one.
AtOffByOne(v, index, junk) ==
    IF index > v.size THEN OutOfRange ELSE Rd(v.items, index, junk)

\* At(index): throws std::out_of_range when index >= size_, else items_[index].
At(v, index, junk) == IF index >= v.size THEN OutOfRange ELSE Rd(v.items, index, junk)

\* operator[](index): items_[index]; index < size_ is asserted.
Subscript(v, index, junk) == Rd(v.items, index, junk)

(***************************************************************************)
(* Comparison operators.  jl and jr are what reads of unwritten slots and  *)
(* of memory outside the array yield on the left and on the right.         *)
(***************************************************************************)

\* std::equal(first1, last1, first2) over slots i .. n-1 of both arrays.
RECURSIVE StdEqual(_, _, _, _, _, _)
StdEqual(lhs, rhs, i, n, jl, jr) ==
    IF i >= n THEN TRUE
    ELSE IF Rd(lhs, i, jl) # Rd(rhs, i, jr) THEN FALSE
    ELSE StdEqual(lhs, rhs, i + 1, n, jl, jr)

\* std::lexicographical_compare(first1, last1, first2, last2) from slot i on:
\* the first differing slot decides, and when one range ends first the
\* result is whether it was the left one.
RECURSIVE LexicographicalCompare(_, _, _, _, _, _, _)
LexicographicalCompare(lhs, nl, rhs, nr, i, jl, jr) ==
    IF i >= nl \/ i >= nr THEN i >= nl /\ i < nr
    ELSE IF Rd(lhs, i, jl) < Rd(rhs, i, jr) THEN TRUE
    ELSE IF Rd(rhs, i, jr) < Rd(lhs, i, jl) THEN FALSE
    ELSE LexicographicalCompare(lhs, nl, rhs, nr, i + 1, jl, jr)

\* An operator== without the size test.
EqualIgnoresSize(lhs, rhs, jl, jr) ==
    StdEqual(lhs.items, rhs.items, 0, GetSize(lhs), jl, jr)

\* operator==
Equal(lhs, rhs, jl, jr) ==
    IF GetSize(lhs) # GetSize(rhs) THEN FALSE
    ELSE StdEqual(lhs.items, rhs.items, 0, GetSize(lhs), jl, jr)

\* operator!=
NotEqual(lhs, rhs, jl, jr) == ~Equal(lhs, rhs, jl, jr)

\* operator<
Less(lhs, rhs, jl, jr) ==
    LexicographicalCompare(lhs.items, GetSize(lhs), rhs.items, GetSize(rhs), 0, jl, jr)

\* operator<=
LessEqual(lhs, rhs, jl, jr) == Less(lhs, rhs, jl, jr) \/ Equal(lhs, rhs, jl, jr)

\* operator>
Greater(lhs, rhs, jl, jr) == Less(rhs, lhs, jr, jl)

\* operator>=
GreaterEqual(lhs, rhs, jl, jr) == ~Less(lhs, rhs, jl, jr)

(***************************************************************************)
(* The state machine.  vec[t] is vector t, live the vectors whose lifetime *)
(* has begun and not ended, call the last call made (what was called, on   *)
(* which vector, with which arguments, and what it returned), pushed the   *)
(* values handed to PushBack in a run of PushBack calls.                   *)
(***************************************************************************)
Other(t) == CHOOSE u \in Names : u # t

\* The identity of the next array: the first one no vector owns.
FreshBuf == CHOOSE id \in BufIds :
    /\ \A t \in Names : vec[t].buf # id
    /\ \A j \in BufIds : j < id => \E t \in Names : vec[t].buf = j

\* What the reads of a walk over slots 0 .. n-1 of v can yield: any value
\* where the slot is unwritten or outside the array (the other slots of junk
\* are never read).
Junk(v, n) ==
    IF \A i \in 0 .. (n - 1) : i < Len(v.items) /\ v.items[i + 1] # Uninit
    THEN {ZeroMemory}
    ELSE {junk \in Memory :
             \A i \in Slots :
                 (i >= n \/ (i < Len(v.items) /\ v.items[i + 1] # Uninit))
                     => junk[i] = DefaultValue}

Lists == UNION {[1 .. n -> Values] : n \in 0 .. MaxCap}

NoValue == 0 - 3

Called(op, t, k, x, ret, res, oob, allocs) ==
    [op |-> op, t |-> t, k |-> k, x |-> x, ret |-> ret, res |-> res,
     oob |-> oob, allocs |-> allocs]

\* The bound of the model: no vector grows beyond MaxCap.
Bounded(v) == v.size <= MaxCap /\ v.cap <= MaxCap /\ Len(v.items) <= MaxCap

\* Vector t becomes o.v and the call is recorded.
Returns(op, t, k, x, o) ==
    /\ Bounded(o.v)
    /\ vec' = [vec EXCEPT ![t] = o.v]
    /\ call' = Called(op, t, k, x, o.ret, NoValue, o.oob, o.allocs)
    /\ UNCHANGED pushed

Init ==
    /\ vec = [t \in Names |-> EmptyVector]
    /\ live = {"a"}
    /\ call = Called("SimpleVector", "a", NoIndex, NoValue, NoCursor, NoValue, FALSE, 0)
    /\ pushed = << >>

\* A vector begins its lifetime.
Constructs(t) == t \notin live /\ live' = live \cup {t}

\* SimpleVector() noexcept = default.
DefaultCtorCall(t) ==
    /\ Constructs(t)
    /\ Returns("SimpleVector", t, NoIndex, NoValue, Outcome(EmptyVector, NoCursor, FALSE, 0))

CountCtorCall(t, n) ==
    /\ Constructs(t)
    /\ Returns("CountCtor", t, n, NoValue, CountCtor(n, FreshBuf))

FillCtorCall(t, n, x) ==
    /\ Constructs(t)
    /\ Returns("FillCtor", t, n, x, FillCtor(n, x, FreshBuf))

ListCtorCall(t, init) ==
    /\ Constructs(t)
    /\ Returns("ListCtor", t, Len(init), NoValue, ListCtor(init, FreshBuf))

ReserveCtorCall(t, n) ==
    /\ Constructs(t)
    /\ Returns("ReserveCtor", t, n, NoValue, ReserveCtor(n, FreshBuf))

CopyCtorCall(t, u) ==
    /\ Constructs(t)
    /\ u \in live
    /\ \E junk \in Junk(vec[u], vec[u].size) :
          Returns("CopyCtor", t, NoIndex, NoValue, CopyCtor(vec[u], FreshBuf, junk))

MoveCtorCall(t, u) ==
    /\ Constructs(t)
    /\ u \in live
    /\ vec' = [vec EXCEPT ![t] = MoveCtor(vec[u])[1], ![u] = MoveCtor(vec[u])[2]]
    /\ call' = Called("MoveCtor", t, NoIndex, NoValue, NoCursor, NoValue, FALSE, 0)
    /\ UNCHANGED pushed

\* The lifetime of vector t ends: ~ArrayPtr releases its array.
DestroyCall(t) ==
    /\ t \in live
    /\ live' = live \ {t}
    /\ vec' = [vec EXCEPT ![t] = EmptyVector]
    /\ call' = Called("Destroy", t, NoIndex, NoValue, NoCursor, NoValue, FALSE, 0)
    /\ UNCHANGED pushed

\* t = u, and t = std::move(u): both are operator=(const SimpleVector&).
\* &items_ != &rhs.items_ compares the addresses of the two members, so it is
\* false exactly when t and u are one object.
AssignCall(op, t, u) ==
    /\ t \in live
    /\ u \in live
    /\ IF t # u
       THEN \E junk \in Junk(vec[u], vec[u].size) :
               Returns(op, t, NoIndex, NoValue, CopyAssign(vec[t], vec[u], FreshBuf, junk))
       ELSE Returns(op, t, NoIndex, NoValue, Outcome(vec[t], NoCursor, FALSE, 0))
    /\ UNCHANGED live

CopyAssignCall(t, u) == AssignCall("CopyAssign", t, u)

MoveAssignCall(t, u) == AssignCall("MoveAssign", t, u)

SwapCall(t, u) ==
    /\ t \in live
    /\ u \in live
    /\ vec' = [vec EXCEPT ![t] = SwapPair(vec[t], vec[u])[1],
                          ![u] = SwapPair(vec[t], vec[u])[2]]
    /\ call' = Called("swap", t, NoIndex, NoValue, NoCursor, NoValue, FALSE, 0)
    /\ UNCHANGED <<live, pushed>>

ClearCall(t) ==
    /\ t \in live
    /\ Returns("Clear", t, NoIndex, NoValue, Clear(vec[t]))
    /\ UNCHANGED live

PopBackCall(t) ==
    /\ t \in live
    /\ Returns("PopBack", t, NoIndex, NoValue, PopBack(vec[t]))
    /\ UNCHANGED live

\* Erase(begin() + index); the assertion begin() <= pos < end() is the
\* precondition.
EraseCall(t, index) ==
    /\ t \in live
    /\ index < vec[t].size
    /\ \E junk \in Junk(vec[t], vec[t].size) :
          Returns("Erase", t, index, NoValue, Erase(vec[t], index, junk))
    /\ UNCHANGED live

PushBackCall(t, item) ==
    /\ t \in live
    /\ \E junk \in Junk(vec[t], vec[t].size) :
          Returns("PushBack", t, NoIndex, item, PushBack(vec[t], item, FreshBuf, junk))
    /\ UNCHANGED live

PushBackMoveCall(t, item) ==
    /\ t \in live
    /\ \E junk \in Junk(vec[t], vec[t].size) :
          Returns("PushBackMove", t, NoIndex, item,
                  PushBackMove(vec[t], item, FreshBuf, junk))
    /\ UNCHANGED live

\* Insert(begin() + index, value); the assertion begin() <= pos <= end() is
\* the precondition.
InsertCall(t, index, value) ==
    /\ t \in live
    /\ index <= vec[t].size
    /\ \E junk \in Junk(vec[t], vec[t].size) :
          Returns("Insert", t, index, value, Insert(vec[t], index, value, FreshBuf, junk))
    /\ UNCHANGED live

InsertMoveCall(t, index, value) ==
    /\ t \in live
    /\ index <= vec[t].size
    /\ \E junk \in Junk(vec[t], vec[t].size) :
          Returns("InsertMove", t, index, value,
                  InsertMove(vec[t], index, value, FreshBuf, junk))
    /\ UNCHANGED live

ReserveCall(t, n) ==
    /\ t \in live
    /\ \E junk \in Junk(vec[t], vec[t].size) :
          Returns("Reserve", t, n, NoValue, Reserve(vec[t], n, FreshBuf, junk))
    /\ UNCHANGED live

ResizeCall(t, n) ==
    /\ t \in live
    /\ \E junk \in Junk(vec[t], vec[t].size) :
          Returns("Resize", t, n, NoValue, Resize(vec[t], n, FreshBuf, junk))
    /\ UNCHANGED live

AtCall(t, index) ==
    /\ t \in live
    /\ \E junk \in Junk(vec[t], IF index < vec[t].size THEN index + 1 ELSE 0) :
          call' = Called("At", t, index, NoValue, NoCursor, At(vec[t], index, junk),
                         index < vec[t].size /\ index >= Len(vec[t].items), 0)
    /\ UNCHANGED <<vec, live, pushed>>

\* operator[](index); the assertion index < size_ is the precondition.
SubscriptCall(t, index) ==
    /\ t \in live
    /\ index < vec[t].size
    /\ \E junk \in Junk(vec[t], index + 1) :
          call' = Called("Subscript", t, index, NoValue, NoCursor,
                         Subscript(vec[t], index, junk), index >= Len(vec[t].items), 0)
    /\ UNCHANGED <<vec, live, pushed>>

\* The exploration follows vector "a" through every call of the class, and
\* a second vector "b" that is made from "a" and then only takes part in
\* the calls that involve two vectors.
Alone == live = {"a"}

Next ==
    \/ "b" \notin live /\ DefaultCtorCall("a")
    \/ "b" \notin live /\ \E n \in 0 .. MaxCap : CountCtorCall("a", n)
    \/ "b" \notin live /\ \E n \in 0 .. MaxCap, x \in Values : FillCtorCall("a", n, x)
    \/ "b" \notin live /\ \E init \in Lists : ListCtorCall("a", init)
    \/ "b" \notin live /\ \E n \in 0 .. MaxCap : ReserveCtorCall("a", n)
    \/ \E t \in Names : CopyCtorCall(t, Other(t))
    \/ \E t \in Names : MoveCtorCall(t, Other(t))
    \/ \E t \in Names : DestroyCall(t)
    \/ \E t \in Names, u \in Names : CopyAssignCall(t, u)
    \/ \E t \in Names : MoveAssignCall(t, Other(t))
    \/ \E t \in Names : SwapCall(t, Other(t))
    \/ Alone /\ ClearCall("a")
    \/ Alone /\ PopBackCall("a")
    \/ Alone /\ \E index \in Slots : EraseCall("a", index)
    \/ Alone /\ \E item \in Values : PushBackCall("a", item)
    \/ Alone /\ \E item \in Values : PushBackMoveCall("a", item)
    \/ Alone /\ \E index \in 0 .. MaxCap, value \in Values : InsertCall("a", index, value)
    \/ Alone /\ \E index \in 0 .. MaxCap, value \in Values : InsertMoveCall("a", index, value)
    \/ Alone /\ \E n \in 0 .. MaxCap : ReserveCall("a", n)
    \/ Alone /\ \E n \in 0 .. MaxCap : ResizeCall("a", n)
    \/ Alone /\ \E index \in 0 .. MaxCap : AtCall("a", index)
    \/ Alone /\ \E index \in Slots : SubscriptCall("a", index)

Spec == Init /\ [][Next]_vars

(***************************************************************************)
(* A run of PushBack calls on a default-constructed vector.                *)
(***************************************************************************)
PushRunCall(item) ==
    /\ Len(pushed) < MaxPushes
    /\ LET o == PushBack(vec["a"], item, FreshBuf, ZeroMemory)
       IN  /\ vec' = [vec EXCEPT !["a"] = o.v]
           /\ call' = Called("PushBack", "a", NoIndex, item, o.ret, NoValue, o.oob, o.allocs)
    /\ pushed' = Append(pushed, item)
    /\ UNCHANGED live

PushRunMoveCall(item) ==
    /\ Len(pushed) < MaxPushes
    /\ LET o == PushBackMove(vec["a"], item, FreshBuf, ZeroMemory)
       IN  /\ vec' = [vec EXCEPT !["a"] = o.v]
           /\ call' = Called("PushBackMove", "a", NoIndex, item, o.ret, NoValue, o.oob,
                             o.allocs)
    /\ pushed' = Append(pushed, item)
    /\ UNCHANGED live

PushNext ==
    \/ \E item \in Values : PushRunCall(item)
    \/ \E item \in Values : PushRunMoveCall(item)

PushSpec == Init /\ [][PushNext]_vars

(***************************************************************************)
(* A run of PushBack calls on a vector constructed from Reserve(n).        *)
(***************************************************************************)
ReserveRunInit ==
    /\ \E n \in 0 .. MaxCap :
          /\ vec = [t \in Names |-> IF t = "a" THEN ReserveCtor(n, 1).v ELSE EmptyVector]
          /\ call = Called("ReserveCtor", "a", n, NoValue, NoCursor, NoValue, FALSE,
                           ReserveCtor(n, 1).allocs)
    /\ live = {"a"}
    /\ pushed = << >>

ReserveRunSpec == ReserveRunInit /\ [][PushNext]_vars

(***************************************************************************)
(* Comparisons of two vectors built from initializer lists, "a" on the     *)
(* left and "b" on the right; PopBack on "a" gives it a capacity and       *)
(* written slots beyond its size that "b" does not have.                   *)
(***************************************************************************)
CmpInit ==
    /\ \E l \in Lists, r \in Lists :
          vec = [t \in Names |-> IF t = "a" THEN ListCtor(l, 1).v ELSE ListCtor(r, 2).v]
    /\ live = Names
    /\ call = Called("ListCtor", "b", NoIndex, NoValue, NoCursor, NoValue, FALSE, 0)
    /\ pushed = << >>

\* lhs op rhs with lhs = t and rhs = u; res is the boolean returned.
Compares(op, t, u, res) ==
    /\ call' = Called(op, t, NoIndex, NoValue, NoCursor, res, FALSE, 0)
    /\ UNCHANGED <<vec, live, pushed>>

EqualCall(t, u) ==
    \E jl \in Junk(vec[t], vec[t].size), jr \in Junk(vec[u], vec[t].size) :
        Compares("operator==", t, u, Equal(vec[t], vec[u], jl, jr))

NotEqualCall(t, u) ==
    \E jl \in Junk(vec[t], vec[t].size), jr \in Junk(vec[u], vec[t].size) :
        Compares("operator!=", t, u, NotEqual(vec[t], vec[u], jl, jr))

LessCall(t, u) ==
    \E jl \in Junk(vec[t], vec[t].size), jr \in Junk(vec[u], vec[u].size) :
        Compares("operator<", t, u, Less(vec[t], vec[u], jl, jr))

LessEqualCall(t, u) ==
    \E jl \in Junk(vec[t], vec[t].size), jr \in Junk(vec[u], vec[u].size) :
        Compares("operator<=", t, u, LessEqual(vec[t], vec[u], jl, jr))

GreaterCall(t, u) ==
    \E jl \in Junk(vec[t], vec[t].size), jr \in Junk(vec[u], vec[u].size) :
        Compares("operator>", t, u, Greater(vec[t], vec[u], jl, jr))

GreaterEqualCall(t, u) ==
    \E jl \in Junk(vec[t], vec[t].size), jr \in Junk(vec[u], vec[u].size) :
        Compares("operator>=", t, u, GreaterEqual(vec[t], vec[u], jl, jr))

CmpNext ==
    \/ EqualCall("a", "b")
    \/ NotEqualCall("a", "b")
    \/ LessCall("a", "b")
    \/ LessEqualCall("a", "b")
    \/ GreaterCall("a", "b")
    \/ GreaterEqualCall("a", "b")
    \/ PopBackCall("a")

CmpSpec == CmpInit /\ [][CmpNext]_vars

(***************************************************************************)
(* What a vector holds.                                                    *)
(***************************************************************************)

\* The elements of v, first to last; Uninit stands for an element that is
\* no written slot of the array v owns.
View(v) ==
    [i \in 1 .. v.size |-> IF i <= Len(v.items) THEN v.items[i] ELSE Uninit]

\* v holds exactly the values of s, in order, in slots of its own array.
Holds(v, s) ==
    /\ v.size = Len(s)
    /\ v.size <= Len(v.items)
    /\ \A i \in 1 .. Len(s) : v.items[i] \in Values /\ v.items[i] = s[i]

\* s with x put before its element k (counted from 0).
InsertAt(s, k, x) ==
    [i \in 1 .. (Len(s) + 1) |-> IF i <= k THEN s[i] ELSE IF i = k + 1 THEN x ELSE s[i - 1]]

\* s without its element k (counted from 0).
RemoveAt(s, k) == [i \in 1 .. (Len(s) - 1) |-> IF i <= k THEN s[i] ELSE s[i + 1]]

Min(m, n) == IF m <= n THEN m ELSE n

Max(m, n) == IF m >= n THEN m ELSE n

\* The vector the last call was made on, before and after it.
Before == vec[call'.t]

After == vec'[call'.t]

(***************************************************************************)
(* C1: after every operation, 0 <= GetSize() <= GetCapacity() for every    *)
(* living vector.                                                          *)
(***************************************************************************)
C1_SizeWithinCapacity ==
    \A t \in live : 0 <= GetSize(vec[t]) /\ GetSize(vec[t]) <= GetCapacity(vec[t])

(***************************************************************************)
(* C2: after N PushBack calls (either overload) on a default-constructed   *)
(* vector, GetSize() = N and element i is the i-th pushed value.           *)
(***************************************************************************)
C2_PushBackSequence ==
    /\ GetSize(vec["a"]) = Len(pushed)
    /\ Holds(vec["a"], pushed)

\* Five values were pushed, across the growth steps 0 -> 1 -> 2 -> 4 -> 8.
C2_Witness ==
    /\ Len(pushed) = 5
    /\ pushed[1] # pushed[2]
    /\ vec["a"].cap = 8
    /\ call.op = "PushBackMove"

Growing == {"PushBack", "PushBackMove", "Insert", "InsertMove"}

(***************************************************************************)
(* C3: PushBack and Insert on a vector of capacity C: a full vector grows  *)
(* to capacity 1 when C = 0 and to 2C when C > 0, a vector with room keeps *)
(* capacity C, and in every case capacity >= size afterwards.              *)
(***************************************************************************)
C3_GrowthPolicy ==
    [][call'.op \in Growing =>
          /\ (Before.size = Before.cap /\ Before.cap = 0) => After.cap = 1
          /\ (Before.size = Before.cap /\ Before.cap > 0) => After.cap = 2 * Before.cap
          /\ Before.size < Before.cap => After.cap = Before.cap
          /\ After.cap >= After.size]_vars

(***************************************************************************)
(* C4: Insert(begin() + k, x) on a vector holding s leaves it holding      *)
(* s[0..k), x, s[k..n), and returns the cursor of index k of the array     *)
(* owned after the call.                                                   *)
(***************************************************************************)
C4_InsertPlacesValue ==
    [][call'.op \in {"Insert", "InsertMove"} =>
          /\ Holds(After, InsertAt(View(Before), call'.k, call'.x))
          /\ call'.ret = [buf |-> After.buf, idx |-> call'.k]]_vars

(***************************************************************************)
(* C5: Erase(begin() + k) on a vector holding s leaves it holding s        *)
(* without its element k, with the capacity unchanged, and returns the     *)
(* cursor of index k.                                                      *)
(***************************************************************************)
C5_EraseRemovesElement ==
    [][call'.op = "Erase" =>
          /\ Holds(After, RemoveAt(View(Before), call'.k))
          /\ After.cap = Before.cap
          /\ call'.ret = [buf |-> After.buf, idx |-> call'.k]]_vars

\* The calls that involve a second vector.
TwoVector == {"MoveCtor", "swap"}

(***************************************************************************)
(* C6: a vector copy-constructed from another holds the same elements in   *)
(* the same order in an array of its own, and afterwards a call on one of  *)
(* the two leaves the other as it was.                                     *)
(***************************************************************************)
C6_CopyIsDeep ==
    [][/\ call'.op = "CopyCtor" =>
             /\ Holds(After, View(vec[Other(call'.t)]))
             /\ vec[Other(call'.t)].buf # NullBuf => After.buf # vec[Other(call'.t)].buf
             /\ vec'[Other(call'.t)] = vec[Other(call'.t)]
       /\ (call'.op \notin TwoVector /\ live' = Names) =>
             vec'[Other(call'.t)] = vec[Other(call'.t)]]_vars

(***************************************************************************)
(* C7: move-constructing B from a non-empty A leaves A with size 0 and     *)
(* capacity 0, and B with the size, the capacity, the array and so the     *)
(* elements A had, no array being allocated.                               *)
(***************************************************************************)
C7_MoveCtorTransfers ==
    [][(call'.op = "MoveCtor" /\ vec[Other(call'.t)].size > 0) =>
          /\ GetSize(vec'[Other(call'.t)]) = 0
          /\ GetCapacity(vec'[Other(call'.t)]) = 0
          /\ After.size = vec[Other(call'.t)].size
          /\ After.cap = vec[Other(call'.t)].cap
          /\ After.buf = vec[Other(call'.t)].buf
          /\ After.items = vec[Other(call'.t)].items
          /\ call'.allocs = 0]_vars

\* A vector was move-constructed from one that held two different values.
C7_Witness ==
    /\ call.op = "MoveCtor"
    /\ vec[call.t].size >= 2
    /\ vec[call.t].cap > vec[call.t].size
    /\ vec[call.t].items[1] # vec[call.t].items[2]
    /\ vec[call.t].buf # NullBuf
    /\ vec[Other(call.t)] = EmptyVector

(***************************************************************************)
(* C8: A = std::move(B) with B non-empty hands B's array to A: A holds B's *)
(* elements in the array B owned, and B is left with size 0.               *)
(***************************************************************************)
C8_MoveAssignTransfers ==
    [][(call'.op = "MoveAssign" /\ vec[Other(call'.t)].size > 0) =>
          /\ Holds(After, View(vec[Other(call'.t)]))
          /\ After.buf = vec[Other(call'.t)].buf
          /\ GetSize(vec'[Other(call'.t)]) = 0]_vars

(***************************************************************************)
(* C9: At(index) throws out_of_range exactly when index >= GetSize(),      *)
(* changes nothing, and otherwise returns the element operator[] returns.  *)
(***************************************************************************)
C9_AtChecksIndex ==
    [][call'.op = "At" =>
          /\ (call'.res = OutOfRange) <=> (call'.k >= GetSize(Before))
          /\ vec' = vec
          /\ call'.k < GetSize(Before) =>
                \E junk \in Junk(Before, call'.k + 1) :
                    call'.res = Subscript(Before, call'.k, junk)]_vars

\* At threw for an index inside the capacity, and for index 0 of an empty
\* vector the call before.
C9_Witness ==
    /\ call.op = "At"
    /\ call.res = OutOfRange
    /\ call.k = vec[call.t].size
    /\ call.k < vec[call.t].cap
    /\ call.k > 0

(***************************************************************************)
(* C10: Resize(n) on a vector of size s and capacity c ends with size n,   *)
(* with capacity c when n <= c and max(n, 2c) when n > c, and with the     *)
(* elements at [0, min(s, n)) unchanged.                                   *)
(***************************************************************************)
C10_ResizeResult ==
    [][call'.op = "Resize" =>
          /\ After.size = call'.k
          /\ call'.k <= Before.cap => After.cap = Before.cap
          /\ call'.k > Before.cap => After.cap = Max(call'.k, 2 * Before.cap)
          /\ \A i \in 1 .. Min(Before.size, call'.k) :
                /\ i <= Len(After.items)
                /\ i <= Len(Before.items)
                /\ After.items[i] = Before.items[i]]_vars

(***************************************************************************)
(* C11: Reserve(n) on a vector of capacity c: with n > c it ends with      *)
(* capacity n and the same size and elements in the same order, with       *)
(* n <= c it leaves size, capacity, elements and array as they were.       *)
(***************************************************************************)
C11_ReserveResult ==
    [][call'.op = "Reserve" =>
          /\ call'.k > Before.cap =>
                /\ After.cap = call'.k
                /\ Holds(After, View(Before))
          /\ call'.k <= Before.cap => After = Before]_vars

(***************************************************************************)
(* C12: for every vector V the run reaches, every k in 0 .. size and every *)
(* value x, Erase(Insert(V.begin() + k, x)) leaves a vector with the size  *)
(* and the element sequence V had before the two calls.                    *)
(***************************************************************************)
C12_InsertEraseRoundTrip ==
    \A t \in live : \A k \in 0 .. vec[t].size, x \in Values :
        \A junk \in Junk(vec[t], vec[t].size) :
            LET inserted == Insert(vec[t], k, x, FreshBuf, junk)
            IN  Bounded(inserted.v) =>
                    \A more \in Junk(inserted.v, inserted.v.size) :
                        Holds(Erase(inserted.v, inserted.ret.idx, more).v, View(vec[t]))

\* s comes before t in lexicographic order: at the first index where they
\* differ s has the smaller element, or s ends there and t goes on.
Precedes(s, t) ==
    \E j \in 0 .. Min(Len(s), Len(t)) :
        /\ \A i \in 1 .. j : s[i] = t[i]
        /\ \/ j = Len(s) /\ j < Len(t)
           \/ j < Len(s) /\ j < Len(t) /\ s[j + 1] < t[j + 1]

Comparisons ==
    {"operator==", "operator!=", "operator<", "operator<=", "operator>", "operator>="}

\* The number of the conditions of s that are true.
HowManyOf(s) == Cardinality({i \in 1 .. Len(s) : s[i]})

(***************************************************************************)
(* C13: a == b is true exactly when the sizes are equal and the elements   *)
(* are pairwise equal in order, whatever the capacities; a < b exactly     *)
(* when a's elements come before b's in lexicographic order; a != b is     *)
(* not (a == b), a > b is b < a, a <= b is not (b < a), a >= b is          *)
(* not (a < b); and exactly one of a < b, a == b, a > b is true.           *)
(***************************************************************************)
C13_ComparisonOperators ==
    call.op \in Comparisons =>
        LET a == vec[call.t]
            b == vec[Other(call.t)]
            z == ZeroMemory
        IN  /\ call.op = "operator==" => (call.res <=> View(a) = View(b))
            /\ call.op = "operator<" => (call.res <=> Precedes(View(a), View(b)))
            /\ call.op = "operator!=" => (call.res <=> ~Equal(a, b, z, z))
            /\ call.op = "operator>" => (call.res <=> Less(b, a, z, z))
            /\ call.op = "operator<=" => (call.res <=> ~Less(b, a, z, z))
            /\ call.op = "operator>=" => (call.res <=> ~Less(a, b, z, z))
            /\ HowManyOf(<<Less(a, b, z, z), Equal(a, b, z, z), Greater(a, b, z, z)>>) = 1

\* a == b returned true for two vectors of two different elements, where
\* a has the larger capacity and, beyond its size, a slot left by PopBack.
C13_Witness ==
    /\ call.op = "operator=="
    /\ call.res = TRUE
    /\ vec["a"].size = 2
    /\ vec["a"].items[1] # vec["a"].items[2]
    /\ vec["a"].cap > vec["b"].cap
    /\ Len(vec["a"].items) > vec["a"].size
    /\ vec["a"].items[3] \in Values

\* No array is owned by two vectors.
NoSharedArray ==
    \A t \in Names, u \in Names : (t # u /\ vec[t].buf # NullBuf) => vec[t].buf # vec[u].buf

(***************************************************************************)
(* C14: at every moment no two vectors own the same array, and move        *)
(* construction and swap allocate nothing: the two vectors change places   *)
(* as owners of the arrays they owned before.                              *)
(***************************************************************************)
C14_ExclusiveOwnership ==
    /\ []NoSharedArray
    /\ [][call'.op \in TwoVector =>
             /\ After.buf = vec[Other(call'.t)].buf
             /\ vec'[Other(call'.t)].buf = Before.buf
             /\ call'.allocs = 0]_vars

\* Two vectors that each own an array, with different contents, were swapped.
C14_Witness ==
    /\ call.op = "swap"
    /\ vec["a"].buf # NullBuf
    /\ vec["b"].buf # NullBuf
    /\ vec["a"].buf # vec["b"].buf
    /\ vec["a"].items # vec["b"].items

(***************************************************************************)
(* C15: a vector constructed from Reserve(n) has size 0 and capacity n,    *)
(* and each of the next n PushBack calls leaves the capacity as it was: a  *)
(* call that is at most the capacity-th since the construction does not    *)
(* change the capacity, so the capacity is n until size reaches n.         *)
(***************************************************************************)
C15_ReservedCapacity ==
    /\ [](call.op = "ReserveCtor" =>
             GetSize(vec[call.t]) = 0 /\ GetCapacity(vec[call.t]) = call.k)
    /\ [][Len(pushed') <= GetCapacity(Before) =>
             /\ GetCapacity(After) = GetCapacity(Before)
             /\ GetSize(After) = Len(pushed')]_vars

\* The third PushBack on a vector constructed from Reserve(3) has returned.
C15_Witness ==
    /\ call.op = "PushBack"
    /\ Len(pushed) = 3
    /\ GetSize(vec["a"]) = 3
    /\ GetCapacity(vec["a"]) = 3
    /\ Holds(vec["a"], pushed)

\* n calls to PopBack() in a row.
RECURSIVE PopBacks(_, _)
PopBacks(v, n) == IF n = 0 THEN v ELSE PopBacks(PopBack(v).v, n - 1)

(***************************************************************************)
(* C16: for n < GetSize(), Resize(n) leaves the size and the elements that *)
(* n calls to PopBack() on the same starting vector leave.                 *)
(***************************************************************************)
C16_ResizeIsNPopBacks ==
    [][(call'.op = "Resize" /\ call'.k < GetSize(Before)) =>
          View(After) = View(PopBacks(Before, call'.k))]_vars

(***************************************************************************)
(* C16, amended: for n < GetSize(), Resize(n) leaves the size and the      *)
(* elements that GetSize() - n calls to PopBack() on the same starting     *)
(* vector leave.                                                           *)
(***************************************************************************)
C16_ResizeIsSizeMinusNPopBacks ==
    [][(call'.op = "Resize" /\ call'.k < GetSize(Before)) =>
          /\ GetSize(After) = GetSize(PopBacks(Before, GetSize(Before) - call'.k))
          /\ View(After) = View(PopBacks(Before, GetSize(Before) - call'.k))]_vars

\* Resize(n) has returned with n elements, the first two different, and two
\* written slots beyond them that hold a value other than the default.
C16_Witness ==
    /\ call.op = "Resize"
    /\ call.allocs = 0
    /\ call.k = 2
    /\ GetSize(vec[call.t]) = 2
    /\ Len(vec[call.t].items) = 4
    /\ vec[call.t].items[1] # vec[call.t].items[2]
    /\ vec[call.t].items[3] = 1
    /\ vec[call.t].items[4] = 1

(***************************************************************************)
(* C17: after Resize(n) on a vector of size s < n, every element at an     *)
(* index in [s, n) is a slot of the array that holds the default value,    *)
(* whatever the slots held before, with and without a new array.           *)
(***************************************************************************)
C17_ResizeFillsDefault ==
    [][(call'.op = "Resize" /\ call'.k > GetSize(Before)) =>
          \A i \in (GetSize(Before) + 1) .. call'.k :
              i <= Len(After.items) /\ After.items[i] = DefaultValue]_vars

\* Resize(3) has returned without a new array on a vector of four slots:
\* the first element and the slot beyond the size hold a value other than
\* the default, the elements in between hold the default.
C17_Witness ==
    /\ call.op = "Resize"
    /\ call.allocs = 0
    /\ call.k = 3
    /\ GetSize(vec[call.t]) = 3
    /\ vec[call.t].items = <<1, DefaultValue, DefaultValue, 1>>

(***************************************************************************)
(* C18: A = B on two vectors leaves A holding the elements B holds, in     *)
(* order, and leaves B as it was; A = A leaves A as it was, array          *)
(* included.                                                               *)
(***************************************************************************)
C18_CopyAssign ==
    [][call'.op = "CopyAssign" =>
          \A t \in Names, u \in Names :
              CopyAssignCall(t, u) =>
                  IF t = u
                  THEN vec'[t] = vec[t]
                  ELSE /\ Holds(vec'[t], View(vec[u]))
                       /\ vec'[u] = vec[u]]_vars

\* The calls that change one vector.
Mutating ==
    {"PushBack", "PushBackMove", "Insert", "InsertMove", "Erase", "Reserve", "Resize",
     "Clear", "PopBack"}

(***************************************************************************)
(* C19: PushBack, Insert, Erase, Reserve and Resize, called within their   *)
(* preconditions on any vector the run reaches, touch no slot outside an   *)
(* array, and a call that replaces the array keeps the elements the        *)
(* vector held.                                                            *)
(***************************************************************************)
C19_AccessesInsideArray ==
    [][call'.op \in Mutating =>
          /\ ~call'.oob
          /\ (call'.allocs > 0 /\ call'.op \in {"PushBack", "PushBackMove"}) =>
                 Holds(After, Append(View(Before), call'.x))
          /\ (call'.allocs > 0 /\ call'.op \in {"Insert", "InsertMove"}) =>
                 Holds(After, InsertAt(View(Before), call'.k, call'.x))
          /\ (call'.allocs > 0 /\ call'.op \in {"Reserve", "Resize"}) =>
                 \A i \in 1 .. GetSize(Before) :
                     /\ i <= Len(After.items)
                     /\ i <= Len(Before.items)
                     /\ After.items[i] = Before.items[i]]_vars

(***************************************************************************)
(* C20: Clear, PopBack, Erase, Resize(n) and Reserve(n) with               *)
(* n <= capacity, and PushBack and Insert on a vector with size < capacity *)
(* leave the capacity and the array owned as they were; Clear leaves size  *)
(* 0; PopBack leaves one element less, or size 0 on an empty vector; and   *)
(* no call that changes one vector leaves it a smaller capacity.           *)
(***************************************************************************)
C20_CapacityKept ==
    [][call'.op \in Mutating =>
          /\ (\/ call'.op \in {"Clear", "PopBack", "Erase"}
              \/ call'.op \in {"Resize", "Reserve"} /\ call'.k <= GetCapacity(Before)
              \/ call'.op \in Growing /\ GetSize(Before) < GetCapacity(Before)) =>
                 /\ GetCapacity(After) = GetCapacity(Before)
                 /\ After.buf = Before.buf
                 /\ call'.allocs = 0
          /\ call'.op = "Clear" => GetSize(After) = 0
          /\ call'.op = "PopBack" =>
                 GetSize(After) = IF GetSize(Before) = 0 THEN 0 ELSE GetSize(Before) - 1
          /\ GetCapacity(After) >= GetCapacity(Before)]_vars

\* Clear has returned on a vector that keeps an array of three slots, all
\* written, not all the same.
C20_Witness ==
    /\ call.op = "Clear"
    /\ GetSize(vec[call.t]) = 0
    /\ GetCapacity(vec[call.t]) = 3
    /\ vec[call.t].buf # NullBuf
    /\ Len(vec[call.t].items) = 3
    /\ \A i \in 1 .. 3 : vec[call.t].items[i] \in Values
    /\ vec[call.t].items[1] # vec[call.t].items[3]

====
